---- MODULE Spec2Model ----
(***************************************************************************)
(* State-machine model of the SonarQube MCP tool server (src/server.py).    *)
(*                                                                         *)
(* Every tool is an async handler.  A handler runs from its invocation to   *)
(* its first `await client.get(...)`, and from each response to the next    *)
(* await or to its end.  The model has one action per such stretch:         *)
(*   Invoke(i, ...)   the handler up to its first await (or to its end),    *)
(*   Respond(i, resp) the handler from a response to its next await/end.    *)
(* The quality server is the environment: each response is drawn from the   *)
(* responses a server (well-behaved or not) can give.                       *)
(*                                                                         *)
(* Python values: None / a missing JSON field is <<>>, a present value x is *)
(* <<x>>; a dict is a function; a list is a sequence.                       *)
(***************************************************************************)
EXTENDS Integers, Sequences, FiniteSets, TLC

(***************************************************************************)
(* Bounds of the model.                                                     *)
(***************************************************************************)
\* largest paging.total a response reports
MaxTotal == 3
\* largest page_size argument
MaxPageSize == 2
\* largest number of components on one page of the component tree
MaxComponents == 2
\* pages are requested up to this page number (only page_size <= 0 gets there)
MaxPage == 3
\* longest list of raw measures of a project
MaxMeasures == 2
\* longest list of projects
MaxProjects == 2
\* longest list of issues
MaxIssues == 3

(***************************************************************************)
(* Optional values.                                                         *)
(***************************************************************************)
None == <<>>
Some(x) == <<x>>
Get(opt, default) == IF opt = None THEN default ELSE opt[1]
Opt(S) == {None} \cup {Some(x) : x \in S}

Min(a, b) == IF a <= b THEN a ELSE b
Max(a, b) == IF a >= b THEN a ELSE b

\* the empty dict {}
EmptyDict == <<>>
\* d[k] = v of a Python dict
DictSet(d, k, v) == (k :> v) @@ d
\* d.get(k, default) of a parsed JSON object whose field k is optional
DictGet(d, k, default) == IF k \in DOMAIN d THEN d[k] ELSE default

(***************************************************************************)
(* Process-wide configuration (src/server.py:37-38).                        *)
(***************************************************************************)
\* SONARQUBE_TOKEN is set to "tok", or is unset
Tokens == {None, Some("tok")}

\* base64(f"{token}:") of the Authorization header, kept symbolic: the
\* credential is the text that was encoded.  f"{None}:" is the text "None:".
BasicAuth(tokenText) == [scheme |-> "Basic", user |-> tokenText, password |-> ""]

(***************************************************************************)
(* The default metric keys, in fetch order.                                 *)
(***************************************************************************)
SONARQUBE_METRIC_KEYS ==
    <<"bugs", "vulnerabilities", "code_smells", "coverage", "duplicated_lines_density">>

(***************************************************************************)
(* Responses of the quality server.                                         *)
(***************************************************************************)
Statuses == {200, 400, 401, 403, 404, 500}

\* httpx.Response.is_success, which raise_for_status() tests
IsSuccess(status) == status >= 200 /\ status <= 299

\* a request that got no HTTP response (DNS, refused, reset, timeout)
TransportFailure == [kind |-> "transport", status |-> 0, parseable |-> FALSE, data |-> None]
\* an HTTP response with an error status; its body is not read
ErrorResponses ==
    {[kind |-> "http", status |-> s, parseable |-> FALSE, data |-> None] :
        s \in {s \in Statuses : ~IsSuccess(s)}}
\* a 2xx response whose body is not JSON
Unparseable == [kind |-> "http", status |-> 200, parseable |-> FALSE, data |-> None]
\* a 2xx response with the JSON object `data`
Ok(data) == [kind |-> "http", status |-> 200, parseable |-> TRUE, data |-> data]

FailureResponses == {TransportFailure, Unparseable} \cup ErrorResponses

\* sequences over S of length lo..hi
SeqsOf(S, lo, hi) == UNION {[1..n -> S] : n \in lo..hi}

(***************************************************************************)
(* Raw measures: {"metric": m, "value": v}; either field may be missing.    *)
(***************************************************************************)
Measure(m, v) == [metric |-> m, value |-> v]

\* the measure lists a component of the tree carries in the model
TreeMeasureLists ==
    { <<Measure(Some("bugs"), Some("1"))>>,
      <<Measure(Some("bugs"), None)>> }

\* components of a component-tree page: key always present, path optional
TreeComponents ==
    [key : {"k"}, path : {None, Some("a"), Some("b")}, measures : TreeMeasureLists]

\* a server returns at most ps components on a page when ps >= 1; a server
\* that accepts ps <= 0 is taken to return at most one
PageCapacity(ps) == IF ps >= 1 THEN Min(ps, MaxComponents) ELSE 1

TreeData(ps) ==
    [total : Opt(0..MaxTotal), components : SeqsOf(TreeComponents, 0, PageCapacity(ps))]

(***************************************************************************)
(* Outcomes of an invocation.                                               *)
(***************************************************************************)
NoOutcome == [kind |-> "none", exc |-> "", msg |-> "", value |-> None]
\* `return value`
Return(value) == [kind |-> "return", exc |-> "", msg |-> "", value |-> value]
\* `raise exc(msg)`; the message is kept as a tag
Raise(exc, msg) == [kind |-> "raise", exc |-> exc, msg |-> msg, value |-> None]

\* exceptions raised inside a handler's try block
HTTPStatusError(status) == [type |-> "HTTPStatusError", status |-> status]
RequestError == [type |-> "RequestError", status |-> 0]
JSONDecodeError == [type |-> "JSONDecodeError", status |-> 0]
KeyError == [type |-> "KeyError", status |-> 0]
ValueError == [type |-> "ValueError", status |-> 0]
AttributeError == [type |-> "AttributeError", status |-> 0]

(***************************************************************************)
(* The local state of one invocation.                                       *)
(***************************************************************************)
Tools ==
    {"get_status", "get_sonarqube_metrics", "get_sonarqube_metrics_history",
     "get_sonarqube_component_tree_metrics", "list_projects", "get_project_issues"}

Idle ==
    [tool |-> "", pc |-> "idle", args |-> None,
     page |-> 0, total |-> None, results |-> EmptyDict,
     sent |-> <<>>, outcome |-> NoOutcome]

\* the handler ends with `outcome`
Finish(l, outcome) == [l EXCEPT !.pc = "done", !.outcome = outcome]
\* the handler awaits client.get(req)
Await(l, req) == [l EXCEPT !.pc = "await", !.sent = Append(l.sent, req)]

VARIABLES
    sonarqube_token,   \* the configured token (process-wide, never written)
    inv,               \* inv[i]: local state of invocation i
    fetched,           \* fetched[i]: the components of the pages received, in order
    lastResp,          \* lastResp[i]: the last response received, if any
    answered,          \* answered[i]: how many responses invocation i received
    answers            \* answers[i]: the responses received, when invocations are paired

vars == <<sonarqube_token, inv, fetched, lastResp, answered, answers>>

\* project keys a caller passes: empty, or the key of a project
ProjectKeys == {"", "proj"}

\* invocation ids; Solo runs one invocation, the others stay idle
Invocations == {1, 2}
Solo == {1}

\* responses received so far by an invocation
Received(l) == Len(l.sent) - (IF l.pc = "await" THEN 1 ELSE 0)

(***************************************************************************)
(* Metric Normalizer: the dict comprehension                                *)
(*   {measure["metric"]: measure.get("value", "N/A") for measure in ...}    *)
(* A later measure overwrites an earlier one with the same metric.          *)
(***************************************************************************)
\* mutant: the first measure of a metric wins
normalize_firstWins(measures) ==
    [name \in {measures[k].metric[1] : k \in 1..Len(measures)} |->
        LET first == CHOOSE k \in 1..Len(measures) :
                        /\ measures[k].metric = Some(name)
                        /\ \A j \in 1..(k - 1) : measures[j].metric # Some(name)
        IN Get(measures[first].value, "N/A")]

RECURSIVE normalize(_)
normalize(measures) ==
    IF measures = <<>> THEN EmptyDict
    ELSE LET n == Len(measures)
             m == measures[n]
         IN DictSet(normalize(SubSeq(measures, 1, n - 1)), m.metric[1], Get(m.value, "N/A"))

\* measure["metric"] raises KeyError when a measure has no "metric" field
HasMetricKeys(measures) == \A k \in 1..Len(measures) : measures[k].metric # None

(***************************************************************************)
(* get_sonarqube_component_tree_metrics                                     *)
(***************************************************************************)
TreeArgs ==
    [project_key : ProjectKeys,
     metric_keys : {<<>>, <<"bugs">>},
     component_type : {None},
     page_size : (-1)..MaxPageSize]

\* str.upper() on the texts of the model
Upper(s) == CASE s = "fil" -> "FIL" [] s = "up" -> "UP" [] s = "bug" -> "BUG" [] OTHER -> s

\* the request for page `page`
TreeRequest(args, page, token) ==
    [endpoint |-> "/api/measures/component_tree",
     params |-> [component |-> args.project_key,
                 metricKeys |-> args.metric_keys,
                 ps |-> args.page_size,
                 p |-> page,
                 qualifiers |-> IF args.component_type = None THEN None
                                ELSE Some(Upper(args.component_type[1]))],
     auth |-> BasicAuth(token[1]),
     timeout |-> None]

\* mutant: a 401 falls through to the generic API error
get_sonarqube_component_tree_metrics_except_no401(e) ==
    IF e.type = "HTTPStatusError" THEN
        CASE e.status = 404 -> Raise("ValueError", "project not found")
          [] e.status = 403 -> Raise("PermissionError", "access denied")
          [] OTHER -> Raise("RuntimeError", "SonarQube API error")
    ELSE IF e.type = "RequestError" THEN Raise("ConnectionError", "failed to connect")
    ELSE Raise("RuntimeError", "unexpected error during component tree fetch")

\* the except clauses
get_sonarqube_component_tree_metrics_except(e) ==
    IF e.type = "HTTPStatusError" THEN
        CASE e.status = 404 -> Raise("ValueError", "project not found")
          [] e.status = 401 -> Raise("PermissionError", "authentication failed")
          [] e.status = 403 -> Raise("PermissionError", "access denied")
          [] OTHER -> Raise("RuntimeError", "SonarQube API error")
    ELSE IF e.type = "RequestError" THEN Raise("ConnectionError", "failed to connect")
    ELSE Raise("RuntimeError", "unexpected error during component tree fetch")

\* path = comp.get("path", key)
ComponentPath(comp) == IF comp.path = None THEN comp.key ELSE comp.path[1]

\* mutant: an entry already in results is kept (first write wins)
RECURSIVE MergeComponents_keepFirst(_, _)
MergeComponents_keepFirst(results, components) ==
    IF components = <<>> THEN results
    ELSE MergeComponents_keepFirst(
            IF ComponentPath(Head(components)) \in DOMAIN results THEN results
            ELSE DictSet(results, ComponentPath(Head(components)),
                         normalize(Head(components).measures)),
            Tail(components))

\* the `for comp in components` loop: results[path] = metrics, in page order
RECURSIVE MergeComponents(_, _)
MergeComponents(results, components) ==
    IF components = <<>> THEN results
    ELSE MergeComponents(
            DictSet(results, ComponentPath(Head(components)),
                    normalize(Head(components).measures)),
            Tail(components))

\* mutant: a page_size below 1 is rejected by leaving the loop
PageLoopExit_validated(page, page_size, total) ==
    page_size <= 0 \/ page * page_size >= total

\* mutant: the exit test is strict
PageLoopExit_strict(page, page_size, total) == page * page_size > total

\* the exit test after a non-empty page
PageLoopExit(page, page_size, total) == page * page_size >= total

\* mutant: the page is not advanced
NextPage_same(page) == page

\* the page requested after page `page`
NextPage(page) == page + 1

\* mutant: a missing total is taken to be large, not 0
ReadTotal_missingIsLarge(total, data) ==
    IF total = None THEN Some(Get(data.total, MaxTotal)) ELSE total

\* mutant: the total is read from every page
ReadTotal_everyPage(total, data) == Some(Get(data.total, 0))

\* total = data.get("paging", {}).get("total", 0), read while total is None
ReadTotal(total, data) == IF total = None THEN Some(Get(data.total, 0)) ELSE total

\* from the invocation to the first await
get_sonarqube_component_tree_metrics_call(args, token) ==
    LET l == [Idle EXCEPT !.tool = "get_sonarqube_component_tree_metrics",
                          !.args = args]
    IN IF args.project_key = "" THEN Finish(l, Return(EmptyDict))
       ELSE IF args.metric_keys = <<>> THEN Finish(l, Return(EmptyDict))
       ELSE IF token = None THEN Finish(l, Raise("UnboundLocalError", "base64_token"))
       ELSE Await([l EXCEPT !.results = EmptyDict, !.page = 1, !.total = None],
                  TreeRequest(args, 1, token))

\* from a response to the next await, or to the end
get_sonarqube_component_tree_metrics_resume(l, resp, token) ==
    IF resp.kind = "transport"
    THEN Finish(l, get_sonarqube_component_tree_metrics_except(RequestError))
    ELSE IF ~IsSuccess(resp.status)
    THEN Finish(l, get_sonarqube_component_tree_metrics_except(HTTPStatusError(resp.status)))
    ELSE IF ~resp.parseable
    THEN Finish(l, get_sonarqube_component_tree_metrics_except(JSONDecodeError))
    ELSE LET data == resp.data
             l1 == [l EXCEPT !.total = ReadTotal(l.total, data)]
         IN IF data.components = <<>> THEN Finish(l1, Return(l1.results))
            ELSE IF \E k \in 1..Len(data.components) :
                        ~HasMetricKeys(data.components[k].measures)
            THEN Finish(l1, get_sonarqube_component_tree_metrics_except(KeyError))
            ELSE LET l2 == [l1 EXCEPT !.results = MergeComponents(l1.results, data.components)]
                 IN IF PageLoopExit(l2.page, l2.args.page_size, l2.total[1])
                    THEN Finish(l2, Return(l2.results))
                    ELSE LET l3 == [l2 EXCEPT !.page = NextPage(l2.page)]
                         IN Await(l3, TreeRequest(l3.args, l3.page, token))

TreeResponses(l) == FailureResponses \cup {Ok(d) : d \in TreeData(l.args.page_size)}

(***************************************************************************)
(* get_status                                                               *)
(***************************************************************************)
StatusRequest(token) ==
    [endpoint |-> "/api/system/status", params |-> None,
     auth |-> BasicAuth(token[1]), timeout |-> Some(10)]

\* the "status" field: missing, a JSON null, or a text
JsonNull == "<null>"
StatusData == [status : Opt({"UP", "DOWN", "RESTARTING", "up", "STARTING", JsonNull})]

\* the except clauses; the second `except httpx.HTTPStatusError` is shadowed
\* by the first
get_status_except(e) ==
    IF e.type = "HTTPStatusError" THEN
        CASE e.status = 401 -> Raise("PermissionError", "authentication failed")
          [] e.status = 403 -> Raise("PermissionError", "access denied")
          [] OTHER -> Raise("RuntimeError", "SonarQube API error")
    ELSE IF e.type = "RequestError" THEN Raise("ConnectionError", "failed to connect")
    ELSE Return(<<"Unexpected error", e.type>>)

\* mutant: only UP has a message of its own
StatusMessage_onlyUp(status) ==
    CASE status = "UP" -> <<"SonarQube server is UP and running.">>
      [] OTHER -> <<"SonarQube status:", status>>

\* the message for a status text
StatusMessage(status) ==
    CASE status = "UP" -> <<"SonarQube server is UP and running.">>
      [] status = "DOWN" -> <<"SonarQube server is DOWN.">>
      [] status = "RESTARTING" -> <<"SonarQube server is restarting...">>
      [] OTHER -> <<"SonarQube status:", status>>

get_status_call(token) ==
    LET l == [Idle EXCEPT !.tool = "get_status"]
    IN IF token = None THEN Finish(l, Raise("UnboundLocalError", "base64_token"))
       ELSE Await(l, StatusRequest(token))

get_status_resume(l, resp) ==
    IF resp.kind = "transport" THEN Finish(l, get_status_except(RequestError))
    ELSE IF ~IsSuccess(resp.status)
    THEN Finish(l, get_status_except(HTTPStatusError(resp.status)))
    ELSE IF ~resp.parseable THEN Finish(l, get_status_except(JSONDecodeError))
    ELSE LET status == Get(resp.data.status, "UNKNOWN")
         IN IF status = JsonNull THEN Finish(l, get_status_except(AttributeError))
            ELSE Finish(l, Return(StatusMessage(Upper(status))))

StatusResponses == FailureResponses \cup {Ok(d) : d \in StatusData}

(***************************************************************************)
(* get_sonarqube_metrics                                                    *)
(***************************************************************************)
Measures ==
    [metric : {None, Some("bugs"), Some("coverage")}, value : {None, Some("1"), Some("2")}]
RawMeasureLists == SeqsOf(Measures, 0, MaxMeasures)

\* the "component" object: {} or an object with a key and optional measures
ComponentObjects ==
    {EmptyDict, [key |-> "proj"]} \cup {[key |-> "proj", measures |-> m] : m \in RawMeasureLists}
MetricsData == [component : Opt(ComponentObjects)]

MetricsRequest(project_key, token) ==
    [endpoint |-> "/api/measures/component",
     params |-> [component |-> project_key, metricKeys |-> SONARQUBE_METRIC_KEYS],
     auth |-> BasicAuth(token[1]), timeout |-> None]

\* the except clauses
get_sonarqube_metrics_except(e) ==
    IF e.type = "HTTPStatusError" THEN
        CASE e.status = 404 -> Raise("ValueError", "project not found")
          [] e.status = 401 -> Raise("PermissionError", "authentication failed")
          [] e.status = 403 -> Raise("PermissionError", "access denied")
          [] OTHER -> Raise("RuntimeError", "SonarQube API error")
    ELSE IF e.type = "RequestError" THEN Raise("ConnectionError", "could not connect")
    ELSE IF e.type = "JSONDecodeError" THEN Raise("ValueError", "invalid JSON")
    ELSE Raise("RuntimeError", "an unexpected error occurred")

\* mutant: the project key is not checked
get_sonarqube_metrics_call_unchecked(project_key, token) ==
    LET l == [Idle EXCEPT !.tool = "get_sonarqube_metrics",
                          !.args = [project_key |-> project_key]]
    IN IF token = None THEN Finish(l, Raise("UnboundLocalError", "base64_token"))
       ELSE Await(l, MetricsRequest(project_key, token))

get_sonarqube_metrics_call(project_key, token) ==
    LET l == [Idle EXCEPT !.tool = "get_sonarqube_metrics",
                          !.args = [project_key |-> project_key]]
    IN IF project_key = "" THEN Finish(l, Return(EmptyDict))
       ELSE IF token = None THEN Finish(l, Raise("UnboundLocalError", "base64_token"))
       ELSE Await(l, MetricsRequest(project_key, token))

\* `if not component_data`: the field is missing, or is {}
NoComponent(data) == data.component = None \/ DOMAIN data.component[1] = {}

get_sonarqube_metrics_resume(l, resp) ==
    IF resp.kind = "transport" THEN Finish(l, get_sonarqube_metrics_except(RequestError))
    ELSE IF ~IsSuccess(resp.status)
    THEN Finish(l, get_sonarqube_metrics_except(HTTPStatusError(resp.status)))
    ELSE IF ~resp.parseable THEN Finish(l, get_sonarqube_metrics_except(JSONDecodeError))
    ELSE IF NoComponent(resp.data)
    \* the ValueError of line 141 is raised inside the try block
    THEN Finish(l, get_sonarqube_metrics_except(ValueError))
    ELSE LET measures == DictGet(resp.data.component[1], "measures", <<>>)
         IN IF measures = <<>> THEN Finish(l, Return(EmptyDict))
            ELSE IF ~HasMetricKeys(measures)
            THEN Finish(l, get_sonarqube_metrics_except(KeyError))
            ELSE Finish(l, Return(normalize(measures)))

MetricsResponses == FailureResponses \cup {Ok(d) : d \in MetricsData}

(***************************************************************************)
(* get_sonarqube_metrics_history                                            *)
(***************************************************************************)
HistoryArgs == [project_key : ProjectKeys, from_date : {Some("2024-01-01")}, to_date : {None}]

\* samples of a history: {"date": d, "value": v}, the value optional
Sample1 == [date |-> Some("2024-01-01"), value |-> Some("1")]
Sample2 == [date |-> Some("2024-01-02"), value |-> None]
\* the histories a response carries in the model
Histories == {<<>>, <<Sample1>>, <<Sample1, Sample2>>, <<Sample2, Sample1>>}

\* "measures": missing, [], or a list whose first element has an optional history
HistoryData ==
    [measures : {None, Some(<<>>)} \cup {Some(<<[history |-> h]>>) : h \in Opt(Histories)}]

\* the request for the metric at position k of the default keys
HistoryRequest(args, k, token) ==
    [endpoint |-> "/api/measures/search_history",
     params |-> [component |-> args.project_key,
                 metrics |-> SONARQUBE_METRIC_KEYS[k],
                 ps |-> 10,
                 from |-> args.from_date,
                 to |-> args.to_date],
     auth |-> BasicAuth(token[1]), timeout |-> None]

\* the except clauses
get_sonarqube_metrics_history_except(e) ==
    IF e.type = "HTTPStatusError" THEN
        CASE e.status = 404 -> Raise("ValueError", "project not found")
          [] e.status = 401 -> Raise("PermissionError", "authentication failed")
          [] e.status = 403 -> Raise("PermissionError", "access denied")
          [] OTHER -> Raise("RuntimeError", "SonarQube API error")
    ELSE IF e.type = "RequestError" THEN Raise("ConnectionError", "could not connect")
    ELSE IF e.type = "JSONDecodeError" THEN Raise("ValueError", "invalid JSON")
    ELSE Raise("RuntimeError", "an unexpected error occurred")

\* history = data.get("measures", [])[0].get("history", []) if data.get("measures") else []
HistoryOf(data) ==
    IF data.measures = None \/ data.measures = Some(<<>>) THEN <<>>
    ELSE Get(data.measures[1][1].history, <<>>)

\* mutant: the samples are returned newest first
FormatHistory_reversed(history) ==
    [k \in 1..Len(history) |->
        [date |-> history[Len(history) + 1 - k].date,
         value |-> Get(history[Len(history) + 1 - k].value, "N/A")]]

\* [{"date": entry.get("date"), "value": entry.get("value", "N/A")} for entry in history]
FormatHistory(history) ==
    [k \in 1..Len(history) |->
        [date |-> history[k].date, value |-> Get(history[k].value, "N/A")]]

\* mutant: an empty project key is rejected with an exception
get_sonarqube_metrics_history_call_raising(args, token) ==
    LET l == [Idle EXCEPT !.tool = "get_sonarqube_metrics_history", !.args = args]
    IN IF args.project_key = "" THEN Finish(l, Raise("ValueError", "empty project key"))
       ELSE IF token = None THEN Finish(l, Raise("UnboundLocalError", "base64_token"))
       ELSE Await([l EXCEPT !.results = EmptyDict], HistoryRequest(args, 1, token))

get_sonarqube_metrics_history_call(args, token) ==
    LET l == [Idle EXCEPT !.tool = "get_sonarqube_metrics_history", !.args = args]
    IN IF args.project_key = "" THEN Finish(l, Return(EmptyDict))
       ELSE IF token = None THEN Finish(l, Raise("UnboundLocalError", "base64_token"))
       ELSE Await([l EXCEPT !.results = EmptyDict], HistoryRequest(args, 1, token))

\* mutant: a failed request is skipped and the loop goes on to the next metric
get_sonarqube_metrics_history_resume_skipping(l, resp, token) ==
    LET k == Len(l.sent)
        failed == resp.kind = "transport" \/ ~IsSuccess(resp.status) \/ ~resp.parseable
        l1 == IF failed THEN l
              ELSE [l EXCEPT !.results =
                       DictSet(l.results, SONARQUBE_METRIC_KEYS[k],
                               FormatHistory(HistoryOf(resp.data)))]
    IN IF k = Len(SONARQUBE_METRIC_KEYS) THEN Finish(l1, Return(l1.results))
       ELSE Await(l1, HistoryRequest(l1.args, k + 1, token))

\* mutant: the requests for the next two metrics are sent together
get_sonarqube_metrics_history_resume_pipelined(l, resp, token) ==
    IF resp.kind = "transport"
    THEN Finish(l, get_sonarqube_metrics_history_except(RequestError))
    ELSE IF ~IsSuccess(resp.status)
    THEN Finish(l, get_sonarqube_metrics_history_except(HTTPStatusError(resp.status)))
    ELSE IF ~resp.parseable
    THEN Finish(l, get_sonarqube_metrics_history_except(JSONDecodeError))
    ELSE LET k == Len(l.sent)
             l1 == [l EXCEPT !.results =
                        DictSet(l.results, SONARQUBE_METRIC_KEYS[Min(k, Len(SONARQUBE_METRIC_KEYS))],
                                FormatHistory(HistoryOf(resp.data)))]
         IN IF k >= Len(SONARQUBE_METRIC_KEYS) THEN Finish(l1, Return(l1.results))
            ELSE IF k + 2 <= Len(SONARQUBE_METRIC_KEYS)
            THEN Await(Await(l1, HistoryRequest(l1.args, k + 1, token)),
                       HistoryRequest(l1.args, k + 2, token))
            ELSE Await(l1, HistoryRequest(l1.args, k + 1, token))

\* one turn of `for metric in keys_to_fetch`; the metric is the one last requested
get_sonarqube_metrics_history_resume(l, resp, token) ==
    IF resp.kind = "transport"
    THEN Finish(l, get_sonarqube_metrics_history_except(RequestError))
    ELSE IF ~IsSuccess(resp.status)
    THEN Finish(l, get_sonarqube_metrics_history_except(HTTPStatusError(resp.status)))
    ELSE IF ~resp.parseable
    THEN Finish(l, get_sonarqube_metrics_history_except(JSONDecodeError))
    ELSE LET k == Len(l.sent)
             metric == SONARQUBE_METRIC_KEYS[k]
             l1 == [l EXCEPT !.results =
                        DictSet(l.results, metric, FormatHistory(HistoryOf(resp.data)))]
         IN IF k = Len(SONARQUBE_METRIC_KEYS) THEN Finish(l1, Return(l1.results))
            ELSE Await(l1, HistoryRequest(l1.args, k + 1, token))

HistoryResponses == FailureResponses \cup {Ok(d) : d \in HistoryData}

(***************************************************************************)
(* list_projects.  Names, keys and the query are texts: sequences of        *)
(* characters, so that lower() and `in` are computed.                       *)
(***************************************************************************)
\* str.lower() of one character of the model's alphabet
LowerChar(c) == CASE c = "F" -> "f" [] c = "O" -> "o" [] OTHER -> c
Lower(text) == [k \in 1..Len(text) |-> LowerChar(text[k])]

\* needle in haystack
Contains(haystack, needle) ==
    \E k \in 0..(Len(haystack) - Len(needle)) :
        SubSeq(haystack, k + 1, k + Len(needle)) = needle

Queries == {None, Some(<<>>), Some(<<"f">>), Some(<<"F", "O">>), Some(<<"o", "s">>), Some(<<"z">>)}

Projects ==
    [key : {None, Some(<<"s">>), Some(<<"f", "o">>)},
     name : {None, Some(<<"F", "o">>)},
     visibility : {Some("public")}]
ProjectsData == [components : Opt(SeqsOf(Projects, 0, MaxProjects))]

ProjectsRequest(tokenText) ==
    [endpoint |-> "/api/projects/search", params |-> None,
     auth |-> BasicAuth(tokenText), timeout |-> None]

\* the except clauses
list_projects_except(e) ==
    IF e.type = "HTTPStatusError" THEN
        CASE e.status = 401 -> Raise("PermissionError", "authentication failed")
          [] e.status = 403 -> Raise("PermissionError", "access denied")
          [] OTHER -> Raise("RuntimeError", "SonarQube API error")
    ELSE IF e.type = "RequestError" THEN Raise("ConnectionError", "failed to connect")
    ELSE Raise("RuntimeError", "an unexpected error occurred while listing projects")

list_projects_call(query, token) ==
    LET l == [Idle EXCEPT !.tool = "list_projects", !.args = [query |-> query]]
    IN IF token = None THEN Finish(l, Raise("ValueError", "missing token"))
       ELSE Await(l, ProjectsRequest(token[1]))

\* mutant: the query is looked for in the name alone
ProjectMatches_nameOnly(p, query) ==
    Contains(Lower(Get(p.name, <<>>)), Lower(query))

\* query_lower in (p.get("name", "").lower() + p.get("key", "").lower())
ProjectMatches(p, query) ==
    Contains(Lower(Get(p.name, <<>>)) \o Lower(Get(p.key, <<>>)), Lower(query))

\* the projects kept, in server order
RECURSIVE FilterProjects(_, _)
FilterProjects(all_projects, query) ==
    IF all_projects = <<>> THEN <<>>
    ELSE (IF ProjectMatches(Head(all_projects), query) THEN <<Head(all_projects)>> ELSE <<>>)
         \o FilterProjects(Tail(all_projects), query)

\* `if query:` is false for None and for ""
SelectProjects(all_projects, query) ==
    IF query # None /\ query[1] # <<>> THEN FilterProjects(all_projects, query[1])
    ELSE all_projects

ProjectsResult(projects) ==
    [total |-> Len(projects),
     projects |-> [k \in 1..Len(projects) |->
                     [key |-> projects[k].key, name |-> projects[k].name,
                      visibility |-> projects[k].visibility]]]

list_projects_resume(l, resp) ==
    IF resp.kind = "transport" THEN Finish(l, list_projects_except(RequestError))
    ELSE IF ~IsSuccess(resp.status)
    THEN Finish(l, list_projects_except(HTTPStatusError(resp.status)))
    ELSE IF ~resp.parseable THEN Finish(l, list_projects_except(JSONDecodeError))
    ELSE LET all_projects == Get(resp.data.components, <<>>)
         IN Finish(l, Return(ProjectsResult(SelectProjects(all_projects, l.args.query))))

ProjectsResponses == FailureResponses \cup {Ok(d) : d \in ProjectsData}

(***************************************************************************)
(* get_project_issues                                                       *)
(***************************************************************************)
Limits == {-1, 0, 1, 2, 10, 501}

IssuesArgs ==
    [project_key : ProjectKeys, issue_type : {None, Some("bug")}, severity : {None},
     resolved : {FALSE}, limit : Limits]

\* the issue at position k of a response
Issue(k) == [key |-> k, severity |-> "MAJOR", type |-> "BUG"]
\* how many issues the first page of a search holds when `held` issues match:
\* the page size caps it; a server that accepts a page size below 1 may
\* answer with any number of them
IssuesPage(held, ps) == IF ps >= 1 THEN {Min(held, ps)} ELSE 0..held
\* the answers to the issues search: the first page of the matching issues
\* and their number (`total`), or an object without "issues"
IssuesData(ps) ==
    {[issues |-> None, total |-> 0]} \cup
    UNION {{[issues |-> Some([k \in 1..n |-> Issue(k)]), total |-> held] :
                n \in IssuesPage(held, ps)} : held \in 0..MaxIssues}

\* the projects of the existence check: each has a key, or none (a KeyError)
KnownProjects == [key : {None, Some("proj"), Some("other")}]
CheckData == [components : Opt(SeqsOf(KnownProjects, 0, 1))]

\* f"{sonarqube_token}:" formats an unset token as the text "None"
TokenText(token) == IF token = None THEN "None" ELSE token[1]

IssuesRequest(args, token) ==
    [endpoint |-> "/api/issues/search",
     params |-> [componentKeys |-> args.project_key,
                 resolved |-> IF args.resolved THEN "true" ELSE "false",
                 ps |-> Min(args.limit, 500),
                 types |-> IF args.issue_type = None THEN None
                           ELSE Some(Upper(args.issue_type[1])),
                 severities |-> IF args.severity = None THEN None
                                ELSE Some(Upper(args.severity[1]))],
     auth |-> BasicAuth(TokenText(token)), timeout |-> Some(15)]

\* mutant: a transport failure falls through to the last except clause
get_project_issues_except_noRequestError(e) ==
    IF e.type = "HTTPStatusError" THEN
        CASE e.status = 401 -> Raise("PermissionError", "authentication failed")
          [] e.status = 403 -> Raise("PermissionError", "access denied")
          [] OTHER -> Raise("RuntimeError", "SonarQube API error")
    ELSE Return([error |-> <<"Unexpected error", e.type>>])

\* the except clauses
get_project_issues_except(e) ==
    IF e.type = "HTTPStatusError" THEN
        CASE e.status = 401 -> Raise("PermissionError", "authentication failed")
          [] e.status = 403 -> Raise("PermissionError", "access denied")
          [] OTHER -> Raise("RuntimeError", "SonarQube API error")
    ELSE IF e.type = "RequestError" THEN Raise("ConnectionError", "failed to connect")
    ELSE Return([error |-> <<"Unexpected error", e.type>>])

\* formatted[:limit]
SliceTo(list, limit) ==
    IF limit >= 0 THEN SubSeq(list, 1, Min(limit, Len(list)))
    ELSE SubSeq(list, 1, Max(Len(list) + limit, 0))

IssuesResult(args, issues) ==
    [project |-> args.project_key,
     filters |-> [type |-> args.issue_type, severity |-> args.severity,
                  resolved |-> args.resolved],
     total_issues |-> Len(issues),
     issues |-> SliceTo(issues, args.limit),
     has_more |-> Len(issues) > args.limit]

get_project_issues_call(args, token) ==
    LET l == [Idle EXCEPT !.tool = "get_project_issues", !.args = args]
    IN IF args.project_key = "" THEN Finish(l, Return([error |-> <<"Missing project key.">>]))
       ELSE Await(l, IssuesRequest(args, token))

\* mutant: no existence check is made when no issue came back
get_project_issues_resume_search_unchecked(l, resp, token) ==
    IF resp.kind = "transport" THEN Finish(l, get_project_issues_except(RequestError))
    ELSE IF ~IsSuccess(resp.status)
    THEN Finish(l, get_project_issues_except(HTTPStatusError(resp.status)))
    ELSE IF ~resp.parseable THEN Finish(l, get_project_issues_except(JSONDecodeError))
    ELSE Finish(l, Return(IssuesResult(l.args, Get(resp.data.issues, <<>>))))

\* after the response to the issues search
get_project_issues_resume_search(l, resp, token) ==
    IF resp.kind = "transport" THEN Finish(l, get_project_issues_except(RequestError))
    ELSE IF ~IsSuccess(resp.status)
    THEN Finish(l, get_project_issues_except(HTTPStatusError(resp.status)))
    ELSE IF ~resp.parseable THEN Finish(l, get_project_issues_except(JSONDecodeError))
    ELSE LET issues == Get(resp.data.issues, <<>>)
         IN IF issues = <<>> THEN Await(l, ProjectsRequest(TokenText(token)))
            ELSE Finish(l, Return(IssuesResult(l.args, issues)))

\* after the response to the existence check, made when no issue came back
get_project_issues_resume_check(l, resp) ==
    IF resp.kind = "transport" THEN Finish(l, get_project_issues_except(RequestError))
    ELSE IF ~IsSuccess(resp.status)
    THEN Finish(l, get_project_issues_except(HTTPStatusError(resp.status)))
    ELSE IF ~resp.parseable THEN Finish(l, get_project_issues_except(JSONDecodeError))
    ELSE LET components == Get(resp.data.components, <<>>)
         IN IF \E k \in 1..Len(components) : components[k].key = None
            THEN Finish(l, get_project_issues_except(KeyError))
            ELSE IF ~\E k \in 1..Len(components) : components[k].key = Some(l.args.project_key)
            THEN Finish(l, Return([project |-> l.args.project_key,
                                   error |-> <<"Project not found">>]))
            ELSE Finish(l, Return(IssuesResult(l.args, <<>>)))

get_project_issues_resume(l, resp, token) ==
    IF Len(l.sent) = 1 THEN get_project_issues_resume_search(l, resp, token)
    ELSE get_project_issues_resume_check(l, resp)

IssuesResponses(l) ==
    FailureResponses \cup
    (IF Len(l.sent) = 1 THEN {Ok(d) : d \in IssuesData(l.sent[1].params.ps)}
     ELSE {Ok(d) : d \in CheckData})

(***************************************************************************)
(* Dispatch.                                                                *)
(***************************************************************************)
\* the tool calls a caller can make
Calls(token) ==
    {get_status_call(token)}
    \cup {get_sonarqube_metrics_call(k, token) : k \in ProjectKeys}
    \cup {get_sonarqube_metrics_history_call(a, token) : a \in HistoryArgs}
    \cup {get_sonarqube_component_tree_metrics_call(a, token) : a \in TreeArgs}
    \cup {list_projects_call(q, token) : q \in Queries}
    \cup {get_project_issues_call(a, token) : a \in IssuesArgs}

\* the answers the awaited request can get
Responses(l) ==
    CASE l.tool = "get_status" -> StatusResponses
      [] l.tool = "get_sonarqube_metrics" -> MetricsResponses
      [] l.tool = "get_sonarqube_metrics_history" -> HistoryResponses
      [] l.tool = "get_sonarqube_component_tree_metrics" -> TreeResponses(l)
      [] l.tool = "list_projects" -> ProjectsResponses
      [] l.tool = "get_project_issues" -> IssuesResponses(l)

\* the handler of l.tool, resumed with the response
Resume(l, resp, token) ==
    CASE l.tool = "get_status" -> get_status_resume(l, resp)
      [] l.tool = "get_sonarqube_metrics" -> get_sonarqube_metrics_resume(l, resp)
      [] l.tool = "get_sonarqube_metrics_history" ->
            get_sonarqube_metrics_history_resume(l, resp, token)
      [] l.tool = "get_sonarqube_component_tree_metrics" ->
            get_sonarqube_component_tree_metrics_resume(l, resp, token)
      [] l.tool = "list_projects" -> list_projects_resume(l, resp)
      [] l.tool = "get_project_issues" -> get_project_issues_resume(l, resp, token)

\* the components a response adds to the log of fetched components
FetchedOf(l, resp) ==
    IF l.tool = "get_sonarqube_component_tree_metrics" /\ resp.kind = "http"
       /\ IsSuccess(resp.status) /\ resp.parseable
    THEN resp.data.components ELSE <<>>

(***************************************************************************)
(* The state machine.                                                       *)
(***************************************************************************)
Init ==
    /\ sonarqube_token \in Tokens
    /\ inv = [i \in Invocations |-> Idle]
    /\ fetched = [i \in Invocations |-> <<>>]
    /\ lastResp = [i \in Invocations |-> None]
    /\ answered = [i \in Invocations |-> 0]
    /\ answers = [i \in Invocations |-> <<>>]

\* a caller invokes a tool: the handler runs to its first await or to its end
Invoke(i) ==
    /\ inv[i].pc = "idle"
    /\ \E l \in Calls(sonarqube_token) : inv' = [inv EXCEPT ![i] = l]
    /\ UNCHANGED <<sonarqube_token, fetched, lastResp, answered, answers>>

\* mutant: the page cursor is one variable shared by the handlers of a tool
Handle_sharedPage(i, resp) ==
    LET l == Resume(inv[i], resp, sonarqube_token)
    IN /\ l.page <= MaxPage
       /\ inv' = [j \in Invocations |->
                    IF j = i THEN l
                    ELSE IF inv[j].tool = l.tool /\ inv[j].pc = "await"
                    THEN [inv[j] EXCEPT !.page = l.page]
                    ELSE inv[j]]
       /\ fetched' = [fetched EXCEPT ![i] = @ \o FetchedOf(inv[i], resp)]
       /\ lastResp' = [lastResp EXCEPT ![i] = Some(resp)]
       /\ answered' = [answered EXCEPT ![i] = @ + 1]

\* the handler of invocation i gets `resp` from its awaited client.get and
\* runs to its next await or to its end; it reads and writes its own locals
Handle(i, resp) ==
    LET l == Resume(inv[i], resp, sonarqube_token)
    IN /\ l.page <= MaxPage
       /\ inv' = [inv EXCEPT ![i] = l]
       /\ fetched' = [fetched EXCEPT ![i] = @ \o FetchedOf(inv[i], resp)]
       /\ lastResp' = [lastResp EXCEPT ![i] = Some(resp)]
       /\ answered' = [answered EXCEPT ![i] = @ + 1]

\* the awaited request completes: the handler runs to its next await or end
Respond(i) ==
    /\ inv[i].pc = "await"
    /\ \E resp \in Responses(inv[i]) : Handle(i, resp)
    /\ UNCHANGED <<sonarqube_token, answers>>

Next == \E i \in Solo : Invoke(i) \/ Respond(i)

Spec == Init /\ [][Next]_vars

\* an awaited request always completes (with a response, or with a transport
\* failure or timeout), so a waiting handler is resumed
FairSpec == Spec /\ \A i \in Solo : WF_vars(Respond(i))

(***************************************************************************)
(* Two invocations in flight at once.  The server runs every handler on one *)
(* event loop: a handler runs from one await to the next without            *)
(* interruption, and the handlers of two invocations take such turns in any *)
(* order.  The calls and answers are a part of those above.                 *)
(***************************************************************************)
PairCalls(token) ==
    {get_status_call(token),
     get_sonarqube_metrics_history_call(
         [project_key |-> "proj", from_date |-> Some("2024-01-01"), to_date |-> None], token),
     get_sonarqube_component_tree_metrics_call(
         [project_key |-> "proj", metric_keys |-> <<"bugs">>, component_type |-> None,
          page_size |-> 1], token)}

\* the parsed bodies among the answers of a paired invocation
PairData(tool, data) ==
    CASE tool = "get_status" -> data.status = Some("UP")
      [] tool = "get_sonarqube_metrics_history" ->
            data.measures \in {Some(<<>>), Some(<<[history |-> Some(<<Sample1, Sample2>>)]>>)}
      [] tool = "get_sonarqube_component_tree_metrics" ->
            /\ data.total = Some(2)
            /\ \A k \in 1..Len(data.components) : data.components[k].path = Some("a")
      [] OTHER -> FALSE

PairResponses(l) ==
    {resp \in Responses(l) :
        \/ resp = TransportFailure
        \/ resp.kind = "http" /\ resp.parseable /\ PairData(l.tool, resp.data)}

PairInvoke(i) ==
    /\ inv[i].pc = "idle"
    /\ \E l \in PairCalls(sonarqube_token) : inv' = [inv EXCEPT ![i] = l]
    /\ UNCHANGED <<sonarqube_token, fetched, lastResp, answered, answers>>

PairRespond(i) ==
    /\ inv[i].pc = "await"
    /\ \E resp \in PairResponses(inv[i]) :
          /\ Handle(i, resp)
          /\ answers' = [answers EXCEPT ![i] = Append(@, resp)]
    /\ UNCHANGED sonarqube_token

PairNext == \E i \in Invocations : PairInvoke(i) \/ PairRespond(i)

PairSpec == Init /\ [][PairNext]_vars

(***************************************************************************)
(* Properties.                                                              *)
(***************************************************************************)
Tree == "get_sonarqube_component_tree_metrics"

\* ceil(a / b) for b >= 1
CeilDiv(a, b) == (a + b - 1) \div b

\* the last response received by invocation i is a 2xx response with a parsed body
GotData(i) ==
    /\ lastResp[i] # None
    /\ lastResp[i][1].kind = "http"
    /\ IsSuccess(lastResp[i][1].status)
    /\ lastResp[i][1].parseable

\* the page numbers of the requests sent so far
PagesRequested(l) == [k \in 1..Len(l.sent) |-> l.sent[k].params.p]

\* a component-tree invocation that passed validation with page_size >= 1
TreeFetch(l) == l.tool = Tree /\ Len(l.sent) >= 1 /\ l.args.page_size >= 1

\* while a page after the first is awaited, the pages before it did not reach
\* the total: page <= ceil(total / page_size), a bound fixed by the first page
C1_PageBounded ==
    \A i \in Invocations :
        LET l == inv[i]
        IN (TreeFetch(l) /\ l.page > 1) =>
              /\ l.total # None
              /\ (l.page - 1) * l.args.page_size < l.total[1]
              /\ l.page <= CeilDiv(l.total[1], l.args.page_size)

\* a turn of the loop ends the invocation or requests the next page; a page
\* with zero components ends it with the results
C1_Turn ==
    \A i \in Invocations :
        LET l == inv[i]
            l2 == inv'[i]
        IN (TreeFetch(l) /\ l.pc = "await" /\ l2 # l) =>
              /\ \/ l2.pc = "done"
                 \/ /\ l2.pc = "await"
                    /\ l2.page = l.page + 1
                    /\ Len(l2.sent) = Len(l.sent) + 1
                    /\ l2.sent[Len(l2.sent)].params.p = l2.page
              /\ (GotData(i)' /\ lastResp'[i][1].data.components = <<>>) =>
                    (l2.pc = "done" /\ l2.outcome = Return(l.results))

\* C1: for any first-page total >= 0 and any page_size >= 1 the page loop of
\* get_sonarqube_component_tree_metrics is finite: every turn either ends the
\* invocation or increases page by exactly one, page never exceeds
\* ceil(total / page_size) for the total fixed by the first page, and a page
\* with zero components ends the loop at once, whatever total was reported.
C1_Terminates == []C1_PageBounded /\ [][C1_Turn]_vars

\* a fetch with page_size 1 whose first page reported total 3 and whose second
\* page came back empty: the loop ended on page 2
C1_Witness ==
    \E i \in Invocations :
        /\ TreeFetch(inv[i]) /\ inv[i].pc = "done"
        /\ inv[i].args.page_size = 1 /\ inv[i].total = Some(3) /\ inv[i].page = 2
        /\ GotData(i) /\ lastResp[i][1].data.components = <<>>
        /\ inv[i].outcome.kind = "return"

\* a fetch that returned after a last page with components: every request
\* succeeded and no page was empty
FullFetch(i) ==
    /\ TreeFetch(inv[i]) /\ inv[i].pc = "done" /\ inv[i].outcome.kind = "return"
    /\ GotData(i) /\ lastResp[i][1].data.components # <<>>

\* C2 as stated: when every request succeeds and no page returns zero
\* components, the requests are for pages 1..ceil(total / page_size), in order.
C2_Original ==
    \A i \in Invocations :
        FullFetch(i) =>
            PagesRequested(inv[i]) =
                [k \in 1..CeilDiv(inv[i].total[1], inv[i].args.page_size) |-> k]

\* C2 amended: when every request succeeds and no page returns zero
\* components, the requests are for pages 1..max(1, ceil(total / page_size)),
\* in that order, none skipped or repeated.
C2_RequestCount ==
    \A i \in Invocations :
        FullFetch(i) =>
            PagesRequested(inv[i]) =
                [k \in 1..Max(1, CeilDiv(inv[i].total[1], inv[i].args.page_size)) |-> k]

\* total = 3, page_size = 1: three page fetches and a result of three entries
C2_Witness ==
    \E i \in Invocations :
        /\ FullFetch(i)
        /\ inv[i].total = Some(3) /\ inv[i].args.page_size = 1
        /\ Len(inv[i].sent) = 3
        /\ Cardinality(DOMAIN inv[i].outcome.value) = 3

\* the total is unknown until the first response
C3_UnknownFirst ==
    \A i \in Invocations :
        (inv[i].tool = Tree /\ Received(inv[i]) = 0) => inv[i].total = None

\* the total is set by the first response with a parsed body, from the total
\* it reports (0 when it reports none), and a known total never changes
C3_SetOnce ==
    \A i \in Invocations :
        (inv[i].tool = Tree /\ inv'[i].tool = Tree) =>
            /\ (inv[i].total # None) => inv'[i].total = inv[i].total
            /\ (inv[i].total = None /\ inv'[i].total # None) =>
                  /\ Received(inv[i]) = 0
                  /\ GotData(i)'
                  /\ inv'[i].total = Some(Get(lastResp'[i][1].data.total, 0))

\* C3: in get_sonarqube_component_tree_metrics the total is unknown before the
\* first response, is set from the first page's reported total, and no later
\* page's response changes it, whatever total that page reports.
C3_TotalFromFirstPage == []C3_UnknownFirst /\ [][C3_SetOnce]_vars

\* a later page reported another total than the first page, and was ignored
C3_Witness ==
    \E i \in Invocations :
        /\ inv[i].tool = Tree /\ Received(inv[i]) >= 2 /\ GotData(i)
        /\ lastResp[i][1].data.total # None
        /\ lastResp[i][1].data.total # inv[i].total

\* the ComponentPath of a fetched component: its path, or its key when it has
\* no path; the positions in the fetch log of the components with path p
SeenPath(comp) == IF comp.path # None THEN comp.path[1] ELSE comp.key
OccurrencesOf(log, p) == {k \in 1..Len(log) : SeenPath(log[k]) = p}
PathsOf(log) == {SeenPath(log[k]) : k \in 1..Len(log)}
LastOf(S) == CHOOSE k \in S : \A j \in S : j <= k

\* C4: the result of get_sonarqube_component_tree_metrics has exactly one
\* entry per distinct ComponentPath seen on the fetched pages (the component's
\* path, or its key when the path is absent), and the entry holds the
\* normalized measures of the occurrence fetched last.
C4_LastWriteWins ==
    \A i \in Invocations :
        (inv[i].tool = Tree /\ inv[i].pc = "done" /\ inv[i].outcome.kind = "return") =>
            LET result == inv[i].outcome.value
                log == fetched[i]
            IN /\ DOMAIN result = PathsOf(log)
               /\ \A p \in PathsOf(log) :
                     result[p] = normalize(log[LastOf(OccurrencesOf(log, p))].measures)

\* a fetch of two pages on which one ComponentPath came more than once,
\* with different measures, and a component without a path was keyed by its key
C4_Witness ==
    \E i \in Invocations :
        /\ inv[i].tool = Tree /\ inv[i].pc = "done" /\ inv[i].outcome.kind = "return"
        /\ inv[i].page = 2
        /\ \E p \in PathsOf(fetched[i]) :
              /\ Cardinality(OccurrencesOf(fetched[i], p)) >= 2
              /\ \E j, k \in OccurrencesOf(fetched[i], p) :
                    fetched[i][j].measures # fetched[i][k].measures
        /\ \E k \in 1..Len(fetched[i]) : fetched[i][k].path = None
        /\ Cardinality(PathsOf(fetched[i])) >= 2

\* the tools that take a project key
ProjectScoped ==
    {"get_sonarqube_metrics", "get_sonarqube_metrics_history", Tree, "get_project_issues"}

\* an invocation whose required argument is empty
EmptyKey(l) == l.tool \in ProjectScoped /\ l.args.project_key = ""
EmptyMetricKeys(l) == l.tool = Tree /\ l.args.metric_keys = <<>>

\* C5: an invocation of a project-scoped tool (metrics, metrics history,
\* component tree metrics, project issues) with an empty project key sends no
\* request to the quality server, and neither does component tree metrics
\* with an empty metric key list.
C5_NoRequestOnEmptyInput ==
    \A i \in Invocations :
        (EmptyKey(inv[i]) \/ EmptyMetricKeys(inv[i])) =>
            (inv[i].sent = <<>> /\ inv[i].pc = "done")

\* every project-scoped tool can be invoked with an empty key; here it is the
\* component tree with a project key and no metric keys
C5_Witness ==
    \E i \in Invocations :
        /\ EmptyMetricKeys(inv[i]) /\ inv[i].args.project_key = "proj"
        /\ sonarqube_token # None
        /\ inv[i].pc = "done"

\* metrics, metrics history or component tree metrics invoked with an empty
\* project key, or component tree metrics with an empty metric key list
C6_Case(l) ==
    \/ l.tool \in {"get_sonarqube_metrics", "get_sonarqube_metrics_history", Tree}
       /\ l.args.project_key = ""
    \/ EmptyMetricKeys(l)

ClassOf(tool, status) ==
    LET e == HTTPStatusError(status)
        o == CASE tool = "get_status" -> get_status_except(e)
               [] tool = "get_sonarqube_metrics" -> get_sonarqube_metrics_except(e)
               [] tool = "get_sonarqube_metrics_history" ->
                     get_sonarqube_metrics_history_except(e)
               [] tool = Tree -> get_sonarqube_component_tree_metrics_except(e)
               [] tool = "list_projects" -> list_projects_except(e)
               [] tool = "get_project_issues" -> get_project_issues_except(e)
    IN IF o.kind = "raise" THEN o.exc ELSE "<returned>"

\* the last response received by invocation i is an HTTP response with status s
GotStatus(i, s) ==
    lastResp[i] # None /\ lastResp[i][1].kind = "http" /\ lastResp[i][1].status = s

\* C7: a 401 response to any request of any of the six tools, a later page or
\* a later metric included, makes the invocation fail, and with the same kind
\* in every tool: the exception class PermissionError.
C7_Unauthenticated ==
    \A i \in Invocations :
        GotStatus(i, 401) =>
            /\ inv[i].pc = "done"
            /\ inv[i].outcome.kind = "raise"
            /\ inv[i].outcome.exc = "PermissionError"
            /\ \A t \in Tools : ClassOf(t, 401) = inv[i].outcome.exc

\* the second page of a component tree fetch was answered with a 401
C7_Witness ==
    \E i \in Invocations :
        /\ TreeFetch(inv[i]) /\ Received(inv[i]) = 2 /\ GotStatus(i, 401)
        /\ inv[i].outcome.kind = "raise"

\* the error kind the classifier is specified to give an HTTP error status
KindOfStatus(status) ==
    CASE status = 401 -> "Unauthenticated"
      [] status = 403 -> "Forbidden"
      [] status = 404 -> "NotFound"
      [] OTHER -> "ServerError"

ErrorStatuses == {s \in Statuses : ~IsSuccess(s)}

\* C8 as stated: the kind raised for a non-2xx response depends on the status
\* code alone, in the same way in all six tools, and 401, 403, 404 and the
\* other error statuses give four pairwise different kinds: the exception an
\* invocation raises for its status is the one any tool raises for a status
\* of the same kind, and differs from the one any tool raises for a status of
\* another kind.
C8_KindByStatusAlone ==
    \A i \in Invocations :
        \A s \in ErrorStatuses :
            GotStatus(i, s) =>
                /\ inv[i].outcome.kind = "raise"
                /\ \A t \in Tools, s2 \in ErrorStatuses :
                      (KindOfStatus(s2) = KindOfStatus(s)) <=> (ClassOf(t, s2) = inv[i].outcome.exc)

\* the last response received by invocation i is a 2xx response whose body is
\* not parseable
GotUnparseable(i) == lastResp[i] = Some(Unparseable)

\* C9 as stated: in every tool a 2xx response with an unparseable body makes
\* the invocation fail, never return a value, and with a kind that is neither
\* the tool's kind for a 404 (NotFound) nor its kind for a 500 (ServerError).
C9_MalformedResponse ==
    \A i \in Invocations :
        GotUnparseable(i) =>
            /\ inv[i].pc = "done"
            /\ inv[i].outcome.kind = "raise"
            /\ inv[i].outcome.exc # ClassOf(inv[i].tool, 404)
            /\ inv[i].outcome.exc # ClassOf(inv[i].tool, 500)

\* metrics got a 2xx response that reports no component for the project
NoComponentReported(i) ==
    /\ inv[i].tool = "get_sonarqube_metrics"
    /\ GotData(i)
    /\ NoComponent(lastResp[i][1].data)

\* C10 as stated: in metrics a 2xx response that reports no component makes
\* the invocation fail with the kind the tool raises for a 404 response, which
\* is not the kind it raises for an unexpected or server error.
C10_NoComponentIsNotFound ==
    \A i \in Invocations :
        NoComponentReported(i) =>
            /\ inv[i].pc = "done"
            /\ inv[i].outcome.kind = "raise"
            /\ inv[i].outcome.exc = ClassOf("get_sonarqube_metrics", 404)
            /\ inv[i].outcome.exc # ClassOf("get_sonarqube_metrics", 500)

\* the request carries an Authorization header
HasAuthorization(req) == DOMAIN req.auth # {}

\* an invocation made with usable arguments while no token is configured
TokenlessCall(l) ==
    /\ sonarqube_token = None
    /\ l.pc # "idle"
    /\ ~EmptyKey(l)
    /\ ~EmptyMetricKeys(l)

\* C11 as stated: with no token configured every tool, called with usable
\* arguments, sends its request, no request carries an Authorization header,
\* and an invocation ends only after a response: its outcome classifies what
\* the server answered and is never caused by the absent token.
C11_TokenOptional ==
    \A i \in Invocations :
        TokenlessCall(inv[i]) =>
            /\ inv[i].sent # <<>>
            /\ \A k \in 1..Len(inv[i].sent) : ~HasAuthorization(inv[i].sent[k])
            /\ inv[i].pc = "done" => lastResp[i] # None

\* the two tools that aggregate the answers to several requests
Aggregators == {"get_sonarqube_metrics_history", Tree}

\* the last response received by invocation i is a failure: no response at
\* all, an error status, or a body that cannot be read
GotFailure(i) == lastResp[i] # None /\ lastResp[i][1] \in FailureResponses

\* an invocation that has ended takes no further step
C12_Ended ==
    \A i \in Invocations : inv[i].pc = "done" => inv'[i] = inv[i]

C12_FailureEnds ==
    \A i \in Invocations :
        (inv[i].tool \in Aggregators /\ GotFailure(i)) =>
            LET resp == lastResp[i][1]
                o == inv[i].outcome
            IN /\ inv[i].pc = "done"
               /\ o.kind = "raise"
               /\ o.value = None
               /\ resp.kind = "transport" => o.exc = "ConnectionError"
               /\ (resp.kind = "http" /\ ~IsSuccess(resp.status)) =>
                      o.exc = ClassOf(inv[i].tool, resp.status)

\* C12: in metrics history and component tree metrics the first failed
\* request ends the invocation: the invocation is over with no request
\* awaited and takes no further step, its outcome is the error raised for
\* that failure (ConnectionError for a transport failure, the tool's class for
\* the status of an error response), and the outcome carries none of the
\* results accumulated from earlier responses.
C12_FirstFailureEnds == []C12_FailureEnds /\ [][C12_Ended]_vars

\* the third request of metrics history fails after two metrics were merged
C12_Witness ==
    \E i \in Invocations :
        /\ inv[i].tool = "get_sonarqube_metrics_history"
        /\ GotFailure(i)
        /\ Len(inv[i].sent) = 3
        /\ DOMAIN inv[i].results = {"bugs", "vulnerabilities"}
        /\ inv[i].outcome.kind = "raise"

\* C13 as stated: in every tool a failed request (no response, an error
\* status, or a 2xx body that cannot be read) ends the invocation with a
\* raised error; no invocation reports such a failure by returning a value.
C13_FailuresAreRaised ==
    \A i \in Invocations :
        GotFailure(i) => (inv[i].pc = "done" /\ inv[i].outcome.kind = "raise")

\* project issues got the answer to its search and returned the issues found
IssuesReturned(i) ==
    /\ inv[i].tool = "get_project_issues"
    /\ inv[i].pc = "done"
    /\ Len(inv[i].sent) = 1
    /\ GotData(i)
    /\ inv[i].args.limit >= 1

\* C14 as stated: when the server holds more matching issues than the limit,
\* project issues returns exactly `limit` issues with has_more true; when it
\* holds at most `limit`, it returns all of them with has_more false.
C14_HasMore ==
    \A i \in Invocations :
        IssuesReturned(i) =>
            LET held == lastResp[i][1].data.total
                limit == inv[i].args.limit
                value == inv[i].outcome.value
            IN /\ inv[i].outcome.kind = "return"
               /\ held > limit => (Len(value.issues) = limit /\ value.has_more)
               /\ held <= limit => (Len(value.issues) = held /\ ~value.has_more)

\* an invocation of project issues with a project key
IssuesCall(l) == l.tool = "get_project_issues" /\ l.args.project_key # ""

\* C15 as stated: an invocation of project issues with a non-empty project
\* key sends exactly one request, whatever the server answers.
C15_Original ==
    \A i \in Invocations :
        (IssuesCall(inv[i]) /\ inv[i].pc = "done") => Len(inv[i].sent) = 1

\* the requests of project issues: the issues search, then at most the
\* projects search
C15_Requests ==
    \A i \in Invocations :
        IssuesCall(inv[i]) =>
            /\ Len(inv[i].sent) \in {1, 2}
            /\ inv[i].sent[1].endpoint = "/api/issues/search"
            /\ Len(inv[i].sent) = 2 => inv[i].sent[2].endpoint = "/api/projects/search"

\* the second request follows exactly a 2xx answer without issues to the first
C15_Step ==
    \A i \in Invocations :
        (IssuesCall(inv[i]) /\ inv'[i] # inv[i]) =>
            IF Len(inv[i].sent) = 1
            THEN (Len(inv'[i].sent) = 2) <=>
                     /\ lastResp'[i][1] \in {Ok(d) : d \in IssuesData(inv[i].sent[1].params.ps)}
                     /\ Get(lastResp'[i][1].data.issues, <<>>) = <<>>
            ELSE inv'[i].pc = "done" /\ inv'[i].sent = inv[i].sent

\* C15 (amended): an invocation of project issues with a non-empty project
\* key sends one request to the issues search and, exactly when that request
\* is answered 2xx with no issues, one further request to the projects search
\* (the existence check); it sends no other request.
C15_RequestCount == []C15_Requests /\ [][C15_Step]_vars

\* an invocation that ended after the existence check
C15_Witness ==
    \E i \in Invocations :
        /\ IssuesCall(inv[i])
        /\ inv[i].pc = "done"
        /\ Len(inv[i].sent) = 2
        /\ inv[i].outcome.kind = "return"

\* get_status got a 2xx response
StatusAnswered(i) ==
    /\ inv[i].tool = "get_status"
    /\ lastResp[i] # None
    /\ lastResp[i][1].kind = "http"
    /\ IsSuccess(lastResp[i][1].status)

UpMessage == <<"SonarQube server is UP and running.">>
DownMessage == <<"SonarQube server is DOWN.">>
RestartingMessage == <<"SonarQube server is restarting...">>
\* the generic fallback message, built from a status text
FallbackMessage(text) == <<"SonarQube status:", text>>

\* C16 as stated: on a 2xx response get_status never raises; the status UP,
\* DOWN or RESTARTING gives the corresponding fixed message and every other
\* status value, a missing status field included, gives the generic fallback
\* message.
C16_Original ==
    \A i \in Invocations :
        StatusAnswered(i) =>
            LET value == inv[i].outcome.value
            IN /\ inv[i].pc = "done"
               /\ inv[i].outcome.kind = "return"
               /\ lastResp[i][1].parseable =>
                     LET status == lastResp[i][1].data.status
                     IN CASE status = Some("UP") -> value = UpMessage
                          [] status = Some("DOWN") -> value = DownMessage
                          [] status = Some("RESTARTING") -> value = RestartingMessage
                          [] OTHER -> value[1] = "SonarQube status:"

\* C16 (amended): on a 2xx response get_status never raises; a status that
\* is UP, DOWN or RESTARTING whatever its letter case gives the corresponding
\* fixed message, every other status text gives the generic fallback message
\* built from the upper-cased text, a missing status field gives the fallback
\* message for UNKNOWN, and a status that is not a text (a JSON null) or a
\* body that is not JSON gives the returned text "Unexpected error: ...".
C16_StatusMessages ==
    \A i \in Invocations :
        StatusAnswered(i) =>
            LET value == inv[i].outcome.value
            IN /\ inv[i].pc = "done"
               /\ inv[i].outcome.kind = "return"
               /\ IF ~lastResp[i][1].parseable THEN value[1] = "Unexpected error"
                  ELSE LET status == lastResp[i][1].data.status
                       IN CASE status \in {Some("UP"), Some("up")} -> value = UpMessage
                            [] status = Some("DOWN") -> value = DownMessage
                            [] status = Some("RESTARTING") -> value = RestartingMessage
                            [] status = Some("STARTING") -> value = FallbackMessage("STARTING")
                            [] status = None -> value = FallbackMessage("UNKNOWN")
                            [] status = Some(JsonNull) -> value[1] = "Unexpected error"

\* the server reports that it is restarting
C16_Witness ==
    \E i \in Invocations :
        /\ StatusAnswered(i)
        /\ lastResp[i][1].parseable
        /\ lastResp[i][1].data.status = Some("RESTARTING")
        /\ inv[i].outcome = Return(RestartingMessage)

History == "get_sonarqube_metrics_history"

\* the default metric keys, in the order the specification fixes
DefaultKeys ==
    <<"bugs", "vulnerabilities", "code_smells", "coverage", "duplicated_lines_density">>

\* the samples the server returned in `data`, none when it reports no measures
ServerSamples(data) ==
    IF data.measures \in {None, Some(<<>>)} \/ data.measures[1][1].history = None
    THEN <<>>
    ELSE data.measures[1][1].history[1]

\* `out` holds the server's samples of `data`, one for one and in their order
SamplesOf(out, data) ==
    LET samples == ServerSamples(data)
    IN /\ Len(out) = Len(samples)
       /\ \A k \in 1..Len(samples) :
             /\ out[k].date = samples[k].date
             /\ out[k].value = Get(samples[k].value, "N/A")

\* request k asks for default key k, and a returned result comes after one
\* request per default key and has exactly the default keys
C17_Requests ==
    \A i \in Invocations :
        (inv[i].tool = History /\ inv[i].sent # <<>>) =>
            /\ Len(inv[i].sent) <= Len(DefaultKeys)
            /\ \A k \in 1..Len(inv[i].sent) : inv[i].sent[k].params.metrics = DefaultKeys[k]
            /\ inv[i].outcome.kind = "return" =>
                  /\ Len(inv[i].sent) = Len(DefaultKeys)
                  /\ inv[i].outcome.value = inv[i].results
                  /\ DOMAIN inv[i].outcome.value = {DefaultKeys[k] : k \in 1..Len(DefaultKeys)}

\* a 2xx answer to request k sets the entry of default key k to the samples
\* of that answer and leaves the other entries as they are
C17_Merge ==
    \A i \in Invocations :
        (inv[i].tool = History /\ inv'[i] # inv[i] /\ GotData(i)') =>
            LET k == Len(inv[i].sent)
                results == inv'[i].results
            IN /\ DOMAIN results = DOMAIN inv[i].results \cup {DefaultKeys[k]}
               /\ SamplesOf(results[DefaultKeys[k]], lastResp'[i][1].data)
               /\ \A key \in DOMAIN inv[i].results \ {DefaultKeys[k]} :
                     results[key] = inv[i].results[key]

\* C17: a successful metrics history invocation sends exactly one request per
\* default metric key, in the fixed order, and its result has exactly those
\* five keys, each mapped to the samples the server returned for that metric,
\* in the server's order (the empty sequence when the server reports no
\* measures for it).
C17_HistoryPerMetric == []C17_Requests /\ [][C17_Merge]_vars

\* a returned history with two samples for the last key and none for the first
C17_Witness ==
    \E i \in Invocations :
        /\ inv[i].tool = History
        /\ inv[i].outcome.kind = "return"
        /\ Len(inv[i].sent) = 5
        /\ inv[i].outcome.value["bugs"] = <<>>
        /\ Len(inv[i].outcome.value["duplicated_lines_density"]) = 2

\* the requests of invocation i that have no response yet
Outstanding(i) == Len(inv[i].sent) - answered[i]

\* at most one request is outstanding, and the handler is waiting for it
C18_OneOutstanding ==
    \A i \in Invocations :
        inv[i].tool \in Aggregators =>
            /\ Outstanding(i) \in {0, 1}
            /\ Outstanding(i) = 1 <=> inv[i].pc = "await"

\* the response in lastResp[i] is merged into the results `results` of tool
\* `tool` after n requests
Merged(tool, n, resp, results) ==
    IF tool = History THEN DefaultKeys[n] \in DOMAIN results
    ELSE \A k \in 1..Len(resp.data.components) :
            LET comp == resp.data.components[k]
            IN Get(comp.path, comp.key) \in DOMAIN results

\* a step that sends request n + 1 sends that one request, has the responses
\* to all n earlier requests, and has merged the n-th
C18_Sequential ==
    \A i \in Invocations :
        (inv[i].tool \in Aggregators /\ Len(inv'[i].sent) > Len(inv[i].sent)
         /\ inv[i].sent # <<>>) =>
            LET n == Len(inv[i].sent)
            IN /\ Len(inv'[i].sent) = n + 1
               /\ answered'[i] = n
               /\ GotData(i)'
               /\ Merged(inv[i].tool, n, lastResp'[i][1], inv'[i].results)

\* C18: within one invocation of component tree metrics or metrics history at
\* most one request is outstanding at any time: request n+1 is sent only
\* once the response to request n has been received and merged into the
\* results.
C18_OneAtATime == []C18_OneOutstanding /\ [][C18_Sequential]_vars

\* metrics history waits for its third response, having merged the first two
C18_Witness ==
    \E i \in Invocations :
        /\ inv[i].tool = History
        /\ inv[i].pc = "await"
        /\ Len(inv[i].sent) = 3
        /\ answered[i] = 2
        /\ DOMAIN inv[i].results = {"bugs", "vulnerabilities"}

\* the handler of `tool` called with `args`, up to its first await
CallOf(tool, args, token) ==
    CASE tool = "get_status" -> get_status_call(token)
      [] tool = "get_sonarqube_metrics" -> get_sonarqube_metrics_call(args, token)
      [] tool = History -> get_sonarqube_metrics_history_call(args, token)
      [] tool = Tree -> get_sonarqube_component_tree_metrics_call(args, token)
      [] tool = "list_projects" -> list_projects_call(args, token)
      [] tool = "get_project_issues" -> get_project_issues_call(args, token)

\* the invocation l resumed with the responses `resps`, one after the other
RECURSIVE Replay(_, _, _)
Replay(l, resps, token) ==
    IF resps = <<>> THEN l
    ELSE Replay(Resume(l, Head(resps), token), Tail(resps), token)

\* the run of invocation i alone: its call, given the answers it got
RunAlone(i) ==
    IF inv[i].pc = "idle" THEN Idle
    ELSE Replay(CallOf(inv[i].tool, inv[i].args, sonarqube_token), answers[i],
                sonarqube_token)

\* each invocation's requests and outcome are those of its run alone
C19_AsAlone ==
    \A i \in Invocations :
        /\ inv[i].sent = RunAlone(i).sent
        /\ inv[i].outcome = RunAlone(i).outcome
        /\ Len(answers[i]) = answered[i]

\* a step of one invocation changes nothing of another, and no step writes
\* the process-wide configuration
C19_OwnState ==
    /\ sonarqube_token' = sonarqube_token
    /\ \A i \in Invocations :
          inv'[i] # inv[i] =>
              \A j \in Invocations \ {i} :
                  /\ inv'[j] = inv[j]
                  /\ lastResp'[j] = lastResp[j]
                  /\ answered'[j] = answered[j]

\* C19: two invocations in flight at once, their handlers taking turns in any
\* order, share no mutable state: a step of one leaves the other's state as
\* it is, and each invocation's sequence of requests and its outcome are those
\* of the same call run alone against the same answers.
C19_NoInterference == []C19_AsAlone /\ [][C19_OwnState]_vars

\* two component tree invocations both wait for their second page, having
\* accumulated different results
C19_Witness ==
    /\ inv[1].tool = Tree /\ inv[2].tool = Tree
    /\ inv[1].pc = "await" /\ inv[2].pc = "await"
    /\ Len(inv[1].sent) = 2 /\ Len(inv[2].sent) = 2
    /\ inv[1].results # inv[2].results

\* the raw measures of the component in a metrics answer, none when the
\* component carries no "measures"
RawMeasures(data) == DictGet(data.component[1], "measures", <<>>)

\* metrics got a 2xx answer with a component whose measures all name a metric
Normalized(i) ==
    /\ inv[i].tool = "get_sonarqube_metrics"
    /\ GotData(i)
    /\ ~NoComponent(lastResp[i][1].data)
    /\ \A k \in 1..Len(RawMeasures(lastResp[i][1].data)) :
          RawMeasures(lastResp[i][1].data)[k].metric # None

\* the position of the last measure of `ms` for the metric `name`
LastMeasure(ms, name) ==
    CHOOSE k \in 1..Len(ms) :
        /\ ms[k].metric = Some(name)
        /\ \A j \in (k + 1)..Len(ms) : ms[j].metric # Some(name)

\* C20: for every list of raw measures the normalized mapping that metrics
\* returns has as key set exactly the metric identifiers of the list, maps
\* each identifier to the value of its last occurrence in the list, "N/A"
\* when that measure has no value, and is the empty mapping, not an error,
\* for the empty list.
C20_Normalizer ==
    \A i \in Invocations :
        Normalized(i) =>
            LET ms == RawMeasures(lastResp[i][1].data)
                value == inv[i].outcome.value
            IN /\ inv[i].outcome.kind = "return"
               /\ DOMAIN value = {ms[k].metric[1] : k \in 1..Len(ms)}
               /\ \A name \in DOMAIN value :
                     LET m == ms[LastMeasure(ms, name)]
                     IN value[name] = IF m.value = None THEN "N/A" ELSE m.value[1]
               /\ ms = <<>> => value = EmptyDict

\* a metric that occurs twice, with a value and then without one
C20_Witness ==
    \E i \in Invocations :
        /\ Normalized(i)
        /\ RawMeasures(lastResp[i][1].data) =
              <<Measure(Some("bugs"), Some("1")), Measure(Some("bugs"), None)>>
        /\ inv[i].outcome.value["bugs"] = "N/A"

\* list_projects got a 2xx answer with a parsed body
ProjectsListed(i) == inv[i].tool = "list_projects" /\ GotData(i)

\* the positions of the server's projects that the query keeps: all of them
\* without a query, else those whose lower-cased name followed by lower-cased
\* key contains the lower-cased query
KeptPositions(all_projects, query) ==
    {k \in 1..Len(all_projects) :
        query = None \/
        Contains(Lower(Get(all_projects[k].name, <<>>)) \o Lower(Get(all_projects[k].key, <<>>)),
                 Lower(query[1]))}

\* the j-th smallest element of the set of positions K
NthOf(K, j) == CHOOSE k \in K : Cardinality({k2 \in K : k2 <= k}) = j

\* C21: list_projects returns exactly the projects whose lower-cased name
\* concatenated with lower-cased key contains the lower-cased query, in the
\* server's order, with total equal to the length of the returned list; with
\* no query it returns every project; a query that matches nothing gives
\* total 0 and an empty list, not an error.
C21_QueryFilter ==
    \A i \in Invocations :
        ProjectsListed(i) =>
            LET all_projects == Get(lastResp[i][1].data.components, <<>>)
                K == KeptPositions(all_projects, inv[i].args.query)
                value == inv[i].outcome.value
            IN /\ inv[i].outcome.kind = "return"
               /\ value.total = Len(value.projects)
               /\ Len(value.projects) = Cardinality(K)
               /\ \A j \in 1..Cardinality(K) :
                     LET p == all_projects[NthOf(K, j)]
                     IN /\ value.projects[j].key = p.key
                        /\ value.projects[j].name = p.name
                        /\ value.projects[j].visibility = p.visibility

\* the query FO in upper case keeps the second of two projects, through its
\* key, and drops the first
C21_Witness ==
    \E i \in Invocations :
        /\ ProjectsListed(i)
        /\ inv[i].args.query = Some(<<"F", "O">>)
        /\ lastResp[i][1].data.components # None
        /\ Len(lastResp[i][1].data.components[1]) = 2
        /\ inv[i].outcome.value.total = 1
        /\ inv[i].outcome.value.projects[1].key = Some(<<"f", "o">>)
        /\ inv[i].outcome.value.projects[1].name = None
        /\ lastResp[i][1].data.components[1][1].key = Some(<<"s">>)

\* the exception class that stands for the NetworkUnreachable kind
NetworkUnreachable == "ConnectionError"

\* the last request of invocation i got no HTTP response
GotNoResponse(i) == lastResp[i] = Some(TransportFailure)

\* C22: in every tool a transport-level failure of a request makes the
\* invocation fail with the NetworkUnreachable kind (the exception class
\* ConnectionError), and no invocation fails with that kind unless its last
\* request had a transport-level failure: a request that received an HTTP
\* response never gives it.
C22_NetworkUnreachable ==
    \A i \in Invocations :
        /\ GotNoResponse(i) =>
              /\ inv[i].pc = "done"
              /\ inv[i].outcome.kind = "raise"
              /\ inv[i].outcome.exc = NetworkUnreachable
        /\ inv[i].outcome.exc = NetworkUnreachable => GotNoResponse(i)

\* the existence check of project issues, its second request, fails in transport
C22_Witness ==
    \E i \in Invocations :
        /\ inv[i].tool = "get_project_issues"
        /\ Len(inv[i].sent) = 2
        /\ GotNoResponse(i)
        /\ inv[i].outcome.exc = NetworkUnreachable

\* component tree metrics got the answer to its first request, a 2xx response
\* that reports no total
FirstPageWithoutTotal(i) ==
    /\ inv[i].tool = Tree
    /\ answered[i] = 1
    /\ GotData(i)
    /\ lastResp[i][1].data.total = None

\* the invocation took the total to be 0 and returned after its one request
\* with the components of the first page alone
ReturnedFirstPage(i) ==
    LET page == lastResp[i][1].data.components
    IN /\ inv[i].total = Some(0)
       /\ inv[i].pc = "done"
       /\ Len(inv[i].sent) = 1
       /\ inv[i].outcome.kind = "return"
       /\ DOMAIN inv[i].outcome.value =
             {Get(page[k].path, page[k].key) : k \in 1..Len(page)}

\* C23 as stated: when the first page's response reports no total, component
\* tree metrics takes the total to be 0 and stops after exactly one request,
\* returning only the first page's components.
C23_Original ==
    \A i \in Invocations : FirstPageWithoutTotal(i) => ReturnedFirstPage(i)

\* C23 (amended): when the first page's response reports no total, component
\* tree metrics takes the total to be 0; for a page_size that is not negative,
\* or a first page without components, it stops after exactly one request,
\* returning only the first page's components; for a negative page_size and
\* a first page with components the exit test fails and it requests page 2.
C23_MissingTotal ==
    \A i \in Invocations :
        FirstPageWithoutTotal(i) =>
            IF inv[i].args.page_size >= 0 \/ lastResp[i][1].data.components = <<>>
            THEN ReturnedFirstPage(i)
            ELSE /\ inv[i].total = Some(0)
                 /\ inv[i].pc = "await"
                 /\ PagesRequested(inv[i]) = <<1, 2>>

\* a first page with a component and no total, for page_size 1
C23_Witness ==
    \E i \in Invocations :
        /\ FirstPageWithoutTotal(i)
        /\ inv[i].args.page_size = 1
        /\ Len(lastResp[i][1].data.components) = 1
        /\ inv[i].pc = "done"
        /\ inv[i].outcome.value # EmptyDict

\* component tree metrics called with a page_size below 1, the total it read
\* from the first page being positive
UnvalidatedLoop(l) ==
    /\ l.tool = Tree
    /\ l.pc # "idle"
    /\ l.args.page_size <= 0
    /\ l.total # None
    /\ l.total[1] > 0

\* the pages are requested in order, and the invocation has ended only on a
\* failed request or on a page without components
C24_EndsOnlyOn ==
    \A i \in Invocations :
        UnvalidatedLoop(inv[i]) =>
            /\ PagesRequested(inv[i]) = [k \in 1..Len(inv[i].sent) |-> k]
            /\ inv[i].pc = "done" =>
                  \/ GotFailure(i)
                  \/ GotData(i) /\ lastResp[i][1].data.components = <<>>

\* every page with components is followed by the request for the next page
C24_GoesOn ==
    \A i \in Invocations :
        (UnvalidatedLoop(inv'[i]) /\ inv'[i] # inv[i] /\ GotData(i)'
         /\ lastResp'[i][1].data.components # <<>>) =>
            /\ inv'[i].pc = "await"
            /\ inv'[i].page = inv[i].page + 1
            /\ Len(inv'[i].sent) = Len(inv[i].sent) + 1
            /\ inv'[i].sent[Len(inv'[i].sent)].params.p = inv[i].page + 1

\* C24: component tree metrics does not validate page_size: for page_size <= 0
\* and a first-page total > 0 the exit test page * page_size >= total is never
\* satisfied, so after every page with components the next page is requested,
\* pages 1, 2, 3, ... in order, and the invocation ends only when the server
\* returns a page with zero components or a request fails.
C24_UnvalidatedPageSize == []C24_EndsOnlyOn /\ [][C24_GoesOn]_vars

\* with page_size 0 and a total of 1 the third page is requested
C24_Witness ==
    \E i \in Invocations :
        /\ UnvalidatedLoop(inv[i])
        /\ inv[i].args.page_size = 0
        /\ inv[i].total = Some(1)
        /\ inv[i].pc = "await"
        /\ Len(inv[i].sent) = 3
        /\ answered[i] = 2

====
